---- MODULE Spec2Model ----
(***************************************************************************)
(* The per-frame update loop of the final SpaceFlythrough class            *)
(* (src/unnamed/part_002, lines 310-915): key handlers, asset-load         *)
(* callbacks and the animate tick with its steps moveModel, updateCamera,  *)
(* applyHoveringEffect, light follow, sun pulse and updateRibbonTrail.     *)
(*                                                                         *)
(* Numbers.  JavaScript numbers are modelled by exact decimal fixed-point  *)
(* integers, not by IEEE doubles:                                          *)
(*   - lengths, positions, speeds and the pulse phase in units of 10^-6    *)
(*     (Micro);                                                            *)
(*   - angles (rotation.x/y/z, hoverAngle) in units of 10^-AngleDigits     *)
(*     radian (AngleUnit), fine enough for several exact x0.9 decays;      *)
(*   - Math.sin / Math.cos by Bhaskara's rational approximation, result in *)
(*     units of 10^-3 (exact at 0, pi/2, pi, 3pi/2).                       *)
(* A tick whose decay x0.9 or x0.95 would not be exact in AngleUnit is     *)
(* outside the model (guard Representable).                                *)
(***************************************************************************)
EXTENDS Integers, Sequences, FiniteSets, TLC

(***************************************************************************)
(* Bounds of the model.                                                    *)
(***************************************************************************)
AngleDigits == 7

Micro == 1000 * 1000
Milli == 10 * 100
AngleUnit == 10 ^ AngleDigits

(***************************************************************************)
(* Values that stand for JavaScript's undefined and null.                  *)
(***************************************************************************)
Undefined == [undefined |-> TRUE]
Null == [null |-> TRUE]

(***************************************************************************)
(* Math.PI, Math.sin, Math.cos, Math.min, Math.max.                        *)
(***************************************************************************)
MathPI == 31415 * (AngleUnit \div 10000)

\* the quantum of the trigonometric approximation: 1/4000 radian
Quantum == AngleUnit \div 4000
PiQ == MathPI \div Quantum
HalfPiQ == PiQ \div 2

\* Bhaskara I: sin(x) ~ 16 x (pi - x) / (5 pi^2 - 4 x (pi - x)) on [0, pi], in 10^-3
Bhaskara(x) ==
  LET p == x * (PiQ - x)
  IN (16 * p) \div ((5 * PiQ * PiQ - 4 * p) \div Milli)

SinQ(q) ==
  LET r == q % (2 * PiQ)
  IN IF r < PiQ THEN Bhaskara(r) ELSE 0 - Bhaskara(r - PiQ)

MathSin(a) == SinQ(a \div Quantum)
MathCos(a) == SinQ((a \div Quantum) + HalfPiQ)

MathMin(a, b) == IF a < b THEN a ELSE b
MathMax(a, b) == IF a > b THEN a ELSE b

\* v * num/den for a value v that is a multiple of den (exact)
Times(v, num, den) == (v \div den) * num

RECURSIVE SqrtFrom(_, _)
SqrtFrom(n, r) ==
  LET r2 == (r + n \div r) \div 2
  IN IF r2 >= r THEN r ELSE SqrtFrom(n, r2)

\* floor of the square root, by Newton's iteration from a value above the root
MathSqrt(n) == IF n <= 0 THEN 0 ELSE SqrtFrom(n, n \div Milli + Milli)

(***************************************************************************)
(* THREE.Vector3, as records of three integers.                            *)
(***************************************************************************)
Vector3(x, y, z) == [x |-> x, y |-> y, z |-> z]

\* Vector3.add
add(a, b) == Vector3(a.x + b.x, a.y + b.y, a.z + b.z)

\* Vector3.sub (used to state displacements)
sub(a, b) == Vector3(a.x - b.x, a.y - b.y, a.z - b.z)

\* dot product of a Micro vector with a Milli unit vector, in Micro
dot(a, u) == (a.x * u.x + a.y * u.y + a.z * u.z) \div Milli

\* Vector3.multiplyScalar on a Milli unit vector u by a Micro scalar s: Micro
scaled(u, s) ==
  Vector3((u.x * s) \div Milli, (u.y * s) \div Milli, (u.z * s) \div Milli)

\* Vector3.addScaledVector(u, s): p + u * s
addScaledVector(p, u, s) == add(p, scaled(u, s))

\* Vector3.crossVectors(a, b) of two Milli vectors, in Milli
crossVectors(a, b) ==
  Vector3((a.y * b.z - a.z * b.y) \div Milli,
          (a.z * b.x - a.x * b.z) \div Milli,
          (a.x * b.y - a.y * b.x) \div Milli)

\* Vector3.normalize of a Milli vector: divideScalar(length() || 1)
normalize(v) ==
  LET len == MathSqrt(v.x * v.x + v.y * v.y + v.z * v.z)
      l == IF len = 0 THEN Milli ELSE len
  IN Vector3((v.x * Milli) \div l, (v.y * Milli) \div l, (v.z * Milli) \div l)

\* Milli vector to Micro vector
toMicro(v) == Vector3(v.x * Milli, v.y * Milli, v.z * Milli)

(***************************************************************************)
(* Object3D.rotation is an Euler (order XYZ) kept in sync with             *)
(* Object3D.quaternion, so applyQuaternion(object.quaternion) is the       *)
(* rotation Rx(Ry(Rz(v))).  v is a vector of whole units, the result is in *)
(* Milli.                                                                  *)
(***************************************************************************)
Euler(x, y, z) == [x |-> x, y |-> y, z |-> z]

RotZ(v, a) ==
  LET c == MathCos(a)
      s == MathSin(a)
  IN Vector3((v.x * c - v.y * s) \div Milli, (v.x * s + v.y * c) \div Milli, v.z)

RotY(v, a) ==
  LET c == MathCos(a)
      s == MathSin(a)
  IN Vector3((v.x * c + v.z * s) \div Milli, v.y, (v.z * c - v.x * s) \div Milli)

RotX(v, a) ==
  LET c == MathCos(a)
      s == MathSin(a)
  IN Vector3(v.x, (v.y * c - v.z * s) \div Milli, (v.y * s + v.z * c) \div Milli)

applyQuaternion(v, rotation) ==
  RotX(RotY(RotZ(Vector3(v.x * Milli, v.y * Milli, v.z * Milli), rotation.z),
            rotation.y),
       rotation.x)

(***************************************************************************)
(* The state of the program: the fields of the SpaceFlythrough object      *)
(* (this.x is the variable x), the two pending asset loads, the frame      *)
(* callbacks requested and not yet run, and the faults raised so far.      *)
(***************************************************************************)
VARIABLES
  spaceModel,         \* this.spaceModel: Undefined, or [position, rotation]
  sun,                \* this.sun: Undefined, or [rotationY, emissiveIntensity]
  camera,             \* this.camera: [position, target]
  pointLight,         \* this.pointLight: [position]
  keyState,           \* this.keyState
  hoverAngle,         \* this.hoverAngle
  hoverOffset,        \* this.hoverOffsetX / Y / Z
  trailHistory,       \* this.trailHistory, newest first
  trailMesh,          \* this.trailMesh: Null, or a mesh [id, tubularSegments]
  scene,              \* this.scene: [objects, trailMeshes]: its children in the
                      \* order they were added, and the trail meshes attached
  sunPulseTime,       \* this.sunPulseTime
  sunPulseDirection,  \* this.sunPulseDirection
  craftLoad,          \* the GLTFLoader request of loadSpaceModel
  sunLoad,            \* the GLTFLoader request of createSun
  frames,             \* callbacks pending in requestAnimationFrame
  faults,             \* the handlers that ended in an uncaught exception
  clones,             \* how many Vector3 samples updateRibbonTrail has cloned
  meshes,             \* how many trail meshes generateTrail has built
  ticks,              \* how many frame callbacks have run
  keyEvents,          \* how many key events have been delivered
  hold,               \* the strafe key the last ticks saw held alone, and for how many ticks
  last                \* the last handler run: its name, input and what it saw

progVars ==
  <<spaceModel, sun, camera, pointLight, keyState, hoverAngle, hoverOffset,
    trailHistory, trailMesh, scene, sunPulseTime, sunPulseDirection, craftLoad,
    sunLoad, frames, faults, clones, meshes>>

vars == <<progVars, ticks, keyEvents, hold, last>>

\* the program state as one record, the `this` the methods work on; thrown,
\* steps and moved are the control state of the handler that is running: whether
\* it has thrown, the steps it has run, and the craft as moveModel left it
This ==
  [spaceModel |-> spaceModel, sun |-> sun, camera |-> camera,
   pointLight |-> pointLight, keyState |-> keyState, hoverAngle |-> hoverAngle,
   hoverOffset |-> hoverOffset, trailHistory |-> trailHistory,
   trailMesh |-> trailMesh, scene |-> scene, sunPulseTime |-> sunPulseTime,
   sunPulseDirection |-> sunPulseDirection, craftLoad |-> craftLoad,
   sunLoad |-> sunLoad, frames |-> frames, faults |-> faults, clones |-> clones,
   meshes |-> meshes, thrown |-> FALSE, steps |-> <<>>, moved |-> Undefined]

\* the program state becomes t
Becomes(t) ==
  /\ spaceModel' = t.spaceModel
  /\ sun' = t.sun
  /\ camera' = t.camera
  /\ pointLight' = t.pointLight
  /\ keyState' = t.keyState
  /\ hoverAngle' = t.hoverAngle
  /\ hoverOffset' = t.hoverOffset
  /\ trailHistory' = t.trailHistory
  /\ trailMesh' = t.trailMesh
  /\ scene' = t.scene
  /\ sunPulseTime' = t.sunPulseTime
  /\ sunPulseDirection' = t.sunPulseDirection
  /\ craftLoad' = t.craftLoad
  /\ sunLoad' = t.sunLoad
  /\ frames' = t.frames
  /\ faults' = t.faults
  /\ clones' = t.clones
  /\ meshes' = t.meshes

\* an uncaught exception in handler `where`: the rest of the handler is skipped
Throw(t, where) == [t EXCEPT !.thrown = TRUE, !.faults = @ \cup {where}]

\* the trace of the steps a handler has run
Step(t, name) == [t EXCEPT !.steps = Append(@, name)]

(***************************************************************************)
(* Constants set by the constructor.                                       *)
(***************************************************************************)
Keys == {"W", "S", "A", "D", "Q", "E", "SHIFT"}

cameraOffset == Vector3(0, 2, -10)
cameraLookAhead == Vector3(0, 0, -5)
lightOffset == Vector3(0, 1, -2)
worldUp == Vector3(0, Milli, 0)

\* 0.2
moveSpeed == 2 * (Micro \div 10)

maxTrailPoints == 100

\* 0.05 and 0.3 radian: the bank step and the bank limit of moveModel
bankStep == 5 * (AngleUnit \div 100)
bankLimit == 3 * (AngleUnit \div 10)

\* 0.05 radian: the hover step; 0.05: the pulse step
hoverStep == 5 * (AngleUnit \div 100)
pulseStep == 5 * (Micro \div 100)

\* 0.002 and 0.005: the hover amplitudes; 0.002 radian: the sun's spin per tick
hoverAmpXY == 2 * (Micro \div 1000)
hoverAmpZ == 5 * (Micro \div 1000)
sunSpin == 2 * (AngleUnit \div 1000)

(***************************************************************************)
(* onKeyDown / onKeyUp.  event.key is any string; String.toUpperCase is    *)
(* modelled on the identifiers the model delivers.                         *)
(***************************************************************************)
toUpperCase(key) ==
  CASE key = "w" -> "W"
    [] key = "s" -> "S"
    [] key = "a" -> "A"
    [] key = "d" -> "D"
    [] key = "q" -> "Q"
    [] key = "e" -> "E"
    [] key = "x" -> "X"
    [] key = "Shift" -> "SHIFT"
    [] key = "ArrowUp" -> "ARROWUP"
    [] OTHER -> key

\* mutant of setKey: the `key in this.keyState` test is missing
setKeyUnchecked(t, event, pressed) ==
  LET key == toUpperCase(event)
  IN [t EXCEPT !.keyState =
        [k \in DOMAIN t.keyState \cup {key} |->
           IF k = key THEN pressed ELSE t.keyState[k]]]

\* mutant of setKey: a press is latched, a key-up does not release it
setKeyLatched(t, event, pressed) ==
  LET key == toUpperCase(event)
  IN IF key \in DOMAIN t.keyState
     THEN [t EXCEPT !.keyState = [@ EXCEPT ![key] = pressed \/ @]]
     ELSE t

setKey(t, event, pressed) ==
  LET key == toUpperCase(event)
  IN IF key \in DOMAIN t.keyState
     THEN [t EXCEPT !.keyState = [@ EXCEPT ![key] = pressed]]
     ELSE t

onKeyDown(t, event) == setKey(t, event, TRUE)

onKeyUp(t, event) == setKey(t, event, FALSE)

(***************************************************************************)
(* moveModel.                                                              *)
(***************************************************************************)
\* mutant of currentSpeed: the boost triples the speed
currentSpeedTripled(k) == IF k["SHIFT"] THEN moveSpeed * 3 ELSE moveSpeed

\* const currentSpeed = this.keyState["SHIFT"] ? this.moveSpeed * 2 : this.moveSpeed
currentSpeed(k) == IF k["SHIFT"] THEN moveSpeed * 2 ELSE moveSpeed

\* modelForward: (0, 0, -1) rotated by the craft's quaternion, normalized
modelForward(m) == normalize(applyQuaternion(Vector3(0, 0, -1), m.rotation))

\* modelRight: crossVectors(modelForward, worldUp), normalized
rightOf(forward) == normalize(crossVectors(forward, worldUp))

modelRight(m) == rightOf(modelForward(m))

\* the position after the four movement branches, in the order of the code,
\* for the vectors and the speed computed before them
movedAlong(p0, forward, right, speed, k) ==
  LET p1 == IF k["S"] THEN addScaledVector(p0, forward, speed) ELSE p0
      p2 == IF k["W"] THEN addScaledVector(p1, forward, 0 - speed) ELSE p1
      p3 == IF k["D"] THEN addScaledVector(p2, right, 0 - speed) ELSE p2
      p4 == IF k["A"] THEN addScaledVector(p3, right, speed) ELSE p3
  IN p4

movedFrom(p0, forward, speed, k) ==
  movedAlong(p0, forward, rightOf(forward), speed, k)

movedPosition(m, k) ==
  movedFrom(m.position, modelForward(m), currentSpeed(k), k)

\* mutant of bankedRoll: level flight is restored at once
bankedRollReset(z, k) ==
  LET z1 == IF k["D"] THEN MathMin(z + bankStep, bankLimit) ELSE z
      z2 == IF k["A"] THEN MathMax(z1 - bankStep, 0 - bankLimit) ELSE z1
  IN IF ~k["A"] /\ ~k["D"] THEN 0 ELSE z2

\* mutant of bankedRoll: the bank step is this.bankSpeed (0.02)
bankedRollSlow(z, k) ==
  LET slow == 2 * (AngleUnit \div 100)
      z1 == IF k["D"] THEN MathMin(z + slow, bankLimit) ELSE z
      z2 == IF k["A"] THEN MathMax(z1 - slow, 0 - bankLimit) ELSE z1
  IN IF ~k["A"] /\ ~k["D"] THEN Times(z2, 9, 10) ELSE z2

\* mutant of bankedRoll: the A branch runs before the D branch
bankedRollLeftFirst(z, k) ==
  LET z1 == IF k["A"] THEN MathMax(z - bankStep, 0 - bankLimit) ELSE z
      z2 == IF k["D"] THEN MathMin(z1 + bankStep, bankLimit) ELSE z1
  IN IF ~k["A"] /\ ~k["D"] THEN Times(z2, 9, 10) ELSE z2

\* mutant of bankedRoll: the bank is not clamped
bankedRollUnclamped(z, k) ==
  LET z1 == IF k["D"] THEN z + bankStep ELSE z
      z2 == IF k["A"] THEN z1 - bankStep ELSE z1
  IN IF ~k["A"] /\ ~k["D"] THEN Times(z2, 9, 10) ELSE z2

\* mutant of bankedRoll: Q and E bank the craft by this.bankSpeed (0.02)
bankedRollByBankKeys(z, k) ==
  LET z1 == IF k["D"] THEN MathMin(z + bankStep, bankLimit) ELSE z
      z2 == IF k["A"] THEN MathMax(z1 - bankStep, 0 - bankLimit) ELSE z1
      z3 == IF ~k["A"] /\ ~k["D"] THEN Times(z2, 9, 10) ELSE z2
      z4 == IF k["Q"] THEN z3 - 2 * (AngleUnit \div 100) ELSE z3
  IN IF k["E"] THEN z4 + 2 * (AngleUnit \div 100) ELSE z4

\* rotation.z after the two banking branches and the return to level flight
bankedRoll(z, k) ==
  LET z1 == IF k["D"] THEN MathMin(z + bankStep, bankLimit) ELSE z
      z2 == IF k["A"] THEN MathMax(z1 - bankStep, 0 - bankLimit) ELSE z1
      z3 == IF ~k["A"] /\ ~k["D"] THEN Times(z2, 9, 10) ELSE z2
  IN z3

\* mutant of levelledPitch: moving forward or backward pitches the craft
levelledPitchByKeys(x, k) ==
  IF ~k["W"] /\ ~k["S"] THEN Times(x, 95, 100)
  ELSE IF k["W"] THEN x - 2 * (AngleUnit \div 100)
  ELSE x + 2 * (AngleUnit \div 100)

\* rotation.x after the return to level pitch
levelledPitch(x, k) == IF ~k["W"] /\ ~k["S"] THEN Times(x, 95, 100) ELSE x

moveModel(t) ==
  IF t.thrown THEN t
  ELSE IF t.spaceModel = Undefined THEN Step(t, "moveModel")
  ELSE LET m == t.spaceModel
           k == t.keyState
           moved == [position |-> movedPosition(m, k),
                     rotation |-> Euler(levelledPitch(m.rotation.x, k),
                                        m.rotation.y,
                                        bankedRoll(m.rotation.z, k))]
       IN Step([t EXCEPT !.spaceModel = moved, !.moved = moved], "moveModel")

(***************************************************************************)
(* updateCamera.  getWorldPosition of the craft is its position: it is     *)
(* added to the scene itself, which is never transformed.                  *)
(***************************************************************************)
\* mutant of updateCamera: the camera moves half way to the chase pose
updateCameraSmoothed(t) ==
  IF t.thrown THEN t
  ELSE IF t.spaceModel = Undefined THEN Step(t, "updateCamera")
  ELSE LET m == t.spaceModel
           offset == toMicro(applyQuaternion(cameraOffset, m.rotation))
           lookAhead == toMicro(applyQuaternion(cameraLookAhead, m.rotation))
           goal == add(m.position, offset)
           from == t.camera.position
       IN Step([t EXCEPT !.camera =
                  [position |-> Vector3((from.x + goal.x) \div 2,
                                        (from.y + goal.y) \div 2,
                                        (from.z + goal.z) \div 2),
                   target |-> add(m.position, lookAhead)]],
               "updateCamera")

updateCamera(t) ==
  IF t.thrown THEN t
  ELSE IF t.spaceModel = Undefined THEN Step(t, "updateCamera")
  ELSE LET m == t.spaceModel
           offset == toMicro(applyQuaternion(cameraOffset, m.rotation))
           lookAhead == toMicro(applyQuaternion(cameraLookAhead, m.rotation))
       IN Step([t EXCEPT !.camera = [position |-> add(m.position, offset),
                                     target |-> add(m.position, lookAhead)]],
               "updateCamera")

(***************************************************************************)
(* applyHoveringEffect.                                                    *)
(***************************************************************************)
\* mutant of applyHoveringEffect: the camera is carried along with the craft
applyHoveringEffectWithCamera(t) ==
  IF t.thrown THEN t
  ELSE IF t.spaceModel = Undefined THEN Step(t, "applyHoveringEffect")
  ELSE LET off == Vector3((MathSin(t.hoverAngle) * hoverAmpXY) \div Milli,
                          (MathCos(t.hoverAngle) * hoverAmpXY) \div Milli,
                          (MathCos(t.hoverAngle) * hoverAmpZ) \div Milli)
       IN Step([t EXCEPT !.hoverOffset = off,
                         !.spaceModel.position = add(@, off),
                         !.camera.position = add(@, off),
                         !.hoverAngle = @ + hoverStep],
               "applyHoveringEffect")

\* mutant of applyHoveringEffect: hoverAngle advances by this.hoverSpeed (0.1)
applyHoveringEffectBySpeed(t) ==
  IF t.thrown THEN t
  ELSE IF t.spaceModel = Undefined THEN Step(t, "applyHoveringEffect")
  ELSE LET off == Vector3((MathSin(t.hoverAngle) * hoverAmpXY) \div Milli,
                          (MathCos(t.hoverAngle) * hoverAmpXY) \div Milli,
                          (MathCos(t.hoverAngle) * hoverAmpZ) \div Milli)
       IN Step([t EXCEPT !.hoverOffset = off,
                         !.spaceModel.position = add(@, off),
                         !.hoverAngle = @ + 2 * hoverStep],
               "applyHoveringEffect")

applyHoveringEffect(t) ==
  IF t.thrown THEN t
  ELSE IF t.spaceModel = Undefined THEN Step(t, "applyHoveringEffect")
  ELSE LET off == Vector3((MathSin(t.hoverAngle) * hoverAmpXY) \div Milli,
                          (MathCos(t.hoverAngle) * hoverAmpXY) \div Milli,
                          (MathCos(t.hoverAngle) * hoverAmpZ) \div Milli)
       IN Step([t EXCEPT !.hoverOffset = off,
                         !.spaceModel.position = add(@, off),
                         !.hoverAngle = @ + hoverStep],
               "applyHoveringEffect")

(***************************************************************************)
(* The light-follow and sun-pulse blocks of animate.                       *)
(***************************************************************************)
lightFollow(t) ==
  IF t.thrown THEN t
  ELSE IF t.spaceModel = Undefined \/ t.pointLight = Undefined
  THEN Step(t, "lightFollow")
  ELSE LET m == t.spaceModel
           off == toMicro(applyQuaternion(lightOffset, m.rotation))
       IN Step([t EXCEPT !.pointLight = [position |-> add(m.position, off)]],
               "lightFollow")

\* this.sunPulseTime += 0.05 * this.sunPulseDirection
advancedPulse(time, direction) == time + pulseStep * direction

\* mutant of reflectedDirection: the turn comes one step late
reflectedDirectionLate(time, direction) ==
  IF time > Micro + pulseStep THEN 0 - 1
  ELSE IF time < 0 - pulseStep THEN 1 ELSE direction

\* mutant of reflectedDirection: the turn is taken at the bound itself
reflectedDirectionInclusive(time, direction) ==
  IF time >= Micro THEN 0 - 1 ELSE IF time <= 0 THEN 1 ELSE direction

\* mutant of reflectedDirection: the phase is stopped above the upper bound
reflectedDirectionStalled(time, direction) ==
  IF time > Micro THEN 0 ELSE IF time < 0 THEN 1 ELSE direction

\* if (time > 1) direction = -1; else if (time < 0) direction = 1
reflectedDirection(time, direction) ==
  IF time > Micro THEN 0 - 1 ELSE IF time < 0 THEN 1 ELSE direction

\* 1.0 + Math.sin(time * Math.PI) * 0.2
emissiveIntensity(time) ==
  Micro + (MathSin((time \div (Micro \div 100)) * (MathPI \div 100))
           * (Micro \div 5)) \div Milli

sunPulse(t) ==
  IF t.thrown THEN t
  ELSE IF t.sun = Undefined THEN Step(t, "sunPulse")
  ELSE LET time == advancedPulse(t.sunPulseTime, t.sunPulseDirection)
       IN Step([t EXCEPT !.sun = [rotationY |-> @.rotationY + sunSpin,
                                  emissiveIntensity |-> emissiveIntensity(time)],
                         !.sunPulseTime = time,
                         !.sunPulseDirection =
                            reflectedDirection(time, t.sunPulseDirection)],
               "sunPulse")

(***************************************************************************)
(* generateTrail and updateRibbonTrail.  A sample is the Vector3 cloned    *)
(* from the craft position; id tells the clones apart.                     *)
(***************************************************************************)
\* mutant of generateTrail: the previous mesh is left in the scene
generateTrailKeeping(t) ==
  IF Len(t.trailHistory) < 2 THEN t
  ELSE LET mesh == [id |-> t.meshes + 1,
                    tubularSegments |-> Len(t.trailHistory) * 2]
       IN [t EXCEPT !.meshes = @ + 1,
                    !.trailMesh = mesh,
                    !.scene.trailMeshes = @ \cup {mesh.id}]

\* mutant of generateTrail: a mesh is built from a single point too
generateTrailEager(t) ==
  LET t1 == IF t.trailMesh # Null
            THEN [t EXCEPT !.scene.trailMeshes = @ \ {t.trailMesh.id}]
            ELSE t
  IN IF Len(t1.trailHistory) < 1 THEN t1
     ELSE LET mesh == [id |-> t1.meshes + 1,
                       tubularSegments |-> Len(t1.trailHistory) * 2]
          IN [t1 EXCEPT !.meshes = @ + 1,
                        !.trailMesh = mesh,
                        !.scene.trailMeshes = @ \cup {mesh.id}]

\* mutant of generateTrail: two points are not enough for a mesh
generateTrailFromThree(t) ==
  LET t1 == IF t.trailMesh # Null
            THEN [t EXCEPT !.scene.trailMeshes = @ \ {t.trailMesh.id}]
            ELSE t
  IN IF Len(t1.trailHistory) < 3 THEN t1
     ELSE LET mesh == [id |-> t1.meshes + 1,
                       tubularSegments |-> Len(t1.trailHistory) * 2]
          IN [t1 EXCEPT !.meshes = @ + 1,
                        !.trailMesh = mesh,
                        !.scene.trailMeshes = @ \cup {mesh.id}]

generateTrail(t) ==
  LET t1 == IF t.trailMesh # Null
            THEN [t EXCEPT !.scene.trailMeshes = @ \ {t.trailMesh.id}]
            ELSE t
  IN IF Len(t1.trailHistory) < 2 THEN t1
     ELSE LET mesh == [id |-> t1.meshes + 1,
                       tubularSegments |-> Len(t1.trailHistory) * 2]
          IN [t1 EXCEPT !.meshes = @ + 1,
                        !.trailMesh = mesh,
                        !.scene.trailMeshes = @ \cup {mesh.id}]

\* mutant of unshift: the sample is pushed at the end
pushed(history, sample) == history \o <<sample>>

\* this.trailHistory.unshift(pos.clone())
unshift(history, sample) == <<sample>> \o history

\* mutant of evicted: the bound is compared one too high
evictedLate(history) ==
  IF Len(history) > maxTrailPoints + 1
  THEN SubSeq(history, 1, Len(history) - 1)
  ELSE history

\* if (this.trailHistory.length > this.maxTrailPoints) this.trailHistory.pop()
evicted(history) ==
  IF Len(history) > maxTrailPoints
  THEN SubSeq(history, 1, Len(history) - 1)
  ELSE history

\* mutant of updateRibbonTrail: the `if (!this.spaceModel) return` is missing, so
\* getWorldPosition is called on undefined
updateRibbonTrailUnguarded(t) ==
  IF t.thrown THEN t
  ELSE IF t.spaceModel = Undefined THEN Throw(t, "updateRibbonTrail")
  ELSE LET sample == [id |-> t.clones + 1, position |-> t.spaceModel.position]
           t1 == [t EXCEPT !.clones = @ + 1,
                           !.trailHistory = evicted(unshift(@, sample))]
       IN Step(generateTrail(t1), "updateRibbonTrail")

updateRibbonTrail(t) ==
  IF t.thrown THEN t
  ELSE IF t.spaceModel = Undefined THEN Step(t, "updateRibbonTrail")
  ELSE LET sample == [id |-> t.clones + 1, position |-> t.spaceModel.position]
           t1 == [t EXCEPT !.clones = @ + 1,
                           !.trailHistory = evicted(unshift(@, sample))]
       IN Step(generateTrail(t1), "updateRibbonTrail")

(***************************************************************************)
(* animate: one frame callback.                                            *)
(***************************************************************************)
\* mutant of requestAnimationFrame: the callback is registered twice
requestAnimationFrameTwice(t) == [t EXCEPT !.frames = @ + 2]

requestAnimationFrame(t) == [t EXCEPT !.frames = @ + 1]

render(t) == IF t.thrown THEN t ELSE Step(t, "render")

\* mutant of animate: the hover offset is applied before the camera follows
animateHoverFirst(t) ==
  render(
    updateRibbonTrail(
      sunPulse(
        lightFollow(
          updateCamera(
            applyHoveringEffect(
              moveModel(
                requestAnimationFrame(t))))))))

animate(t) ==
  render(
    updateRibbonTrail(
      sunPulse(
        lightFollow(
          applyHoveringEffect(
            updateCamera(
              moveModel(
                requestAnimationFrame(t))))))))

(***************************************************************************)
(* The callbacks of loadSpaceModel and createSun.  A loaded gltf.scene is  *)
(* a fresh Object3D: position (0,0,0), rotation (0,0,0).                   *)
(***************************************************************************)
\* mutant of craftLoaded: the camera is not placed when the craft arrives
craftLoadedUnplaced(t) ==
  [t EXCEPT !.craftLoad = "loaded",
            !.spaceModel = [position |-> Vector3(0, 0, 0 - 3 * Micro),
                            rotation |-> Euler(0, MathPI, 0)],
            !.scene.objects = Append(@, "spaceModel")]

craftLoaded(t) ==
  updateCamera(
    [t EXCEPT !.craftLoad = "loaded",
              !.spaceModel = [position |-> Vector3(0, 0, 0 - 3 * Micro),
                              rotation |-> Euler(0, MathPI, 0)],
              !.scene.objects = Append(@, "spaceModel")])

\* mutant of craftFailed: the error callback requests the load again
craftFailedRetry(t) == [t EXCEPT !.craftLoad = "pending"]

craftFailed(t) == [t EXCEPT !.craftLoad = "failed"]

\* mutant of sunLoaded: the camera is put back where the constructor put it
sunLoadedResettingCamera(t) ==
  [t EXCEPT !.sunLoad = "loaded",
            !.sun = [rotationY |-> 0, emissiveIntensity |-> Micro],
            !.scene.objects = @ \o <<"sun", "sunLight">>,
            !.sunPulseTime = 0,
            !.sunPulseDirection = 1,
            !.camera = [position |-> Vector3(0, 0, 10 * Micro),
                        target |-> Undefined]]

sunLoaded(t) ==
  [t EXCEPT !.sunLoad = "loaded",
            !.sun = [rotationY |-> 0, emissiveIntensity |-> Micro],
            !.scene.objects = @ \o <<"sun", "sunLight">>,
            !.sunPulseTime = 0,
            !.sunPulseDirection = 1]

sunFailed(t) == [t EXCEPT !.sunLoad = "failed"]

(***************************************************************************)
(* The constructor.  It requests both loads, creates keyState, calls       *)
(* animate() once (line 376: spaceModel and sun are unset, so only the     *)
(* next frame is requested), creates the hover and trail fields and then   *)
(* faults at line 405, where this.trailGeometry is read and was never      *)
(* assigned; the listeners and the frame callback are registered by then.  *)
(***************************************************************************)
constructor ==
  [spaceModel |-> Undefined,
   sun |-> Undefined,
   camera |-> [position |-> Vector3(0, 0, 10 * Micro), target |-> Undefined],
   pointLight |-> [position |-> Vector3(0, Micro, 2 * Micro)],
   keyState |-> [key \in Keys |-> FALSE],
   hoverAngle |-> 0,
   hoverOffset |-> Vector3(0, 0, 0),
   trailHistory |-> <<>>,
   trailMesh |-> Null,
   scene |-> [objects |-> <<"ambientLight", "directionalLight", "pointLight",
                            "stars">>,
              trailMeshes |-> {}],
   sunPulseTime |-> Undefined,
   sunPulseDirection |-> Undefined,
   craftLoad |-> "pending",
   sunLoad |-> "pending",
   frames |-> 1,
   faults |-> {"constructor"},
   clones |-> 0,
   meshes |-> 0]

\* the state a key-up's press started from: when handler `op` is the key-up that
\* directly follows the key-down of the same key, the state before that
\* key-down
pressedFrom(op, key) ==
  IF op = "onKeyUp" /\ last.op = "onKeyDown"
     /\ toUpperCase(last.key) = toUpperCase(key)
  THEN last.pre
  ELSE Undefined

\* what a handler records in `last`: its name, its input, the state it started
\* from, the craft right after its moveModel step, the steps it ran, and for
\* a key-up the state its press started from
Record(op, key, pre, post) ==
  [op |-> op, key |-> key, pre |-> pre, moved |-> post.moved,
   steps |-> post.steps, prev |-> pressedFrom(op, key)]

Init ==
  /\ spaceModel = constructor.spaceModel
  /\ sun = constructor.sun
  /\ camera = constructor.camera
  /\ pointLight = constructor.pointLight
  /\ keyState = constructor.keyState
  /\ hoverAngle = constructor.hoverAngle
  /\ hoverOffset = constructor.hoverOffset
  /\ trailHistory = constructor.trailHistory
  /\ trailMesh = constructor.trailMesh
  /\ scene = constructor.scene
  /\ sunPulseTime = constructor.sunPulseTime
  /\ sunPulseDirection = constructor.sunPulseDirection
  /\ craftLoad = constructor.craftLoad
  /\ sunLoad = constructor.sunLoad
  /\ frames = constructor.frames
  /\ faults = constructor.faults
  /\ clones = constructor.clones
  /\ meshes = constructor.meshes
  /\ ticks = 0
  /\ keyEvents = 0
  /\ hold = [key |-> "", n |-> 0]
  /\ last = [op |-> "constructor", key |-> "", pre |-> Undefined,
             moved |-> Undefined, steps |-> <<>>, prev |-> Undefined]

(***************************************************************************)
(* Actions: one per callback the browser can run.                          *)
(***************************************************************************)
\* the decays of the coming tick are exact in AngleUnit
Representable ==
  spaceModel # Undefined =>
    /\ (~keyState["A"] /\ ~keyState["D"]) => spaceModel.rotation.z % 10 = 0
    /\ (~keyState["W"] /\ ~keyState["S"]) => spaceModel.rotation.x % 100 = 0

\* the strafe key that is down alone, "" when none or both are
heldStrafe(k) == IF k["A"] = k["D"] THEN "" ELSE IF k["A"] THEN "A" ELSE "D"

\* the run of consecutive ticks of moveModel that saw the same strafe key alone
heldBy(t, h) ==
  LET key == heldStrafe(t.keyState)
  IN IF t.spaceModel = Undefined \/ key = "" THEN [key |-> "", n |-> 0]
     ELSE IF h.key = key THEN [key |-> key, n |-> h.n + 1]
     ELSE [key |-> key, n |-> 1]

\* handler `op` ran from the current state and ended in state t
Finish(op, key, t) ==
  \E end \in {IF t.thrown THEN Throw(t, op) ELSE t} :
    /\ Becomes(end)
    /\ last' = Record(op, key, This, end)

KeyDown(event, maxEvents) ==
  /\ keyEvents < maxEvents
  /\ Finish("onKeyDown", event, onKeyDown(This, event))
  /\ keyEvents' = keyEvents + 1
  /\ UNCHANGED <<ticks, hold>>

KeyUp(event, maxEvents) ==
  /\ keyEvents < maxEvents
  /\ Finish("onKeyUp", event, onKeyUp(This, event))
  /\ keyEvents' = keyEvents + 1
  /\ UNCHANGED <<ticks, hold>>

Tick(maxTicks) ==
  /\ frames > 0
  /\ ticks < maxTicks
  /\ Representable
  /\ Finish("animate", "", animate([This EXCEPT !.frames = @ - 1]))
  /\ ticks' = ticks + 1
  /\ hold' = heldBy(This, hold)
  /\ UNCHANGED keyEvents

CraftLoadSuccess(maxDelay) ==
  /\ craftLoad = "pending"
  /\ ticks <= maxDelay
  /\ Finish("craftLoaded", "", craftLoaded(This))
  /\ UNCHANGED <<ticks, keyEvents, hold>>

CraftLoadError(maxDelay) ==
  /\ craftLoad = "pending"
  /\ ticks <= maxDelay
  /\ Finish("craftFailed", "", craftFailed(This))
  /\ UNCHANGED <<ticks, keyEvents, hold>>

SunLoadSuccess(maxDelay) ==
  /\ sunLoad = "pending"
  /\ ticks <= maxDelay
  /\ Finish("sunLoaded", "", sunLoaded(This))
  /\ UNCHANGED <<ticks, keyEvents, hold>>

SunLoadError(maxDelay) ==
  /\ sunLoad = "pending"
  /\ ticks <= maxDelay
  /\ Finish("sunFailed", "", sunFailed(This))
  /\ UNCHANGED <<ticks, keyEvents, hold>>

(***************************************************************************)
(* Specifications.  Spec delivers every key identifier and lets the loads  *)
(* complete at any time of a short run.                                    *)
(***************************************************************************)
EventKeys == {"w", "S", "a", "d", "q", "E", "Shift", "x", "ArrowUp"}

MaxTicks == 3
MaxKeyEvents == 2
MaxLoadDelay == 1

Next ==
  \/ \E event \in EventKeys : KeyDown(event, MaxKeyEvents)
  \/ \E event \in EventKeys : KeyUp(event, MaxKeyEvents)
  \/ Tick(MaxTicks)
  \/ CraftLoadSuccess(MaxLoadDelay)
  \/ CraftLoadError(MaxLoadDelay)
  \/ SunLoadSuccess(MaxLoadDelay)
  \/ SunLoadError(MaxLoadDelay)

Spec == Init /\ [][Next]_vars

(***************************************************************************)
(* SpecRoll: the craft loads before the first tick, the sun load stays     *)
(* pending, and only the strafe keys are delivered, one held at a time,    *)
(* and only the events that change keyState (a key-down of a key that is   *)
(* down changes nothing).  Long enough to bank from one limit to the       *)
(* other.                                                                  *)
(***************************************************************************)
StrafeEvents == {"a", "d"}

RollTicks == 18
RollKeyEvents == 3
RollLoadDelay == 0

Effective(event, pressed) == keyState[toUpperCase(event)] # pressed

NoStrafeHeld == ~keyState["A"] /\ ~keyState["D"]

NextRoll ==
  \/ \E event \in StrafeEvents :
       NoStrafeHeld /\ KeyDown(event, RollKeyEvents)
  \/ \E event \in StrafeEvents :
       Effective(event, FALSE) /\ KeyUp(event, RollKeyEvents)
  \/ Tick(RollTicks)
  \/ CraftLoadSuccess(RollLoadDelay)

SpecRoll == Init /\ [][NextRoll]_vars

(***************************************************************************)
(* SpecFlight: as SpecRoll with the four movement keys and the boost, in   *)
(* shorter runs.                                                           *)
(***************************************************************************)
FlightEvents == {"w", "s", "a", "d", "Shift"}

FlightTicks == 7
FlightKeyEvents == 2
FlightLoadDelay == 0

NextFlight ==
  \/ \E event \in FlightEvents :
       Effective(event, TRUE) /\ KeyDown(event, FlightKeyEvents)
  \/ \E event \in FlightEvents :
       Effective(event, FALSE) /\ KeyUp(event, FlightKeyEvents)
  \/ Tick(FlightTicks)
  \/ CraftLoadSuccess(FlightLoadDelay)

SpecFlight == Init /\ [][NextFlight]_vars

(***************************************************************************)
(* SpecLong: runs long enough to fill the trail and to take the sun pulse  *)
(* through a whole period; keys are pressed before the first tick only.    *)
(***************************************************************************)
LongEvents == {"w", "Shift"}

LongTicks == 103
LongKeyEvents == 1
LongLoadDelay == 0
LongKeyWindow == 0

NextLong ==
  \/ \E event \in LongEvents :
       ticks <= LongKeyWindow /\ KeyDown(event, LongKeyEvents)
  \/ \E event \in LongEvents :
       ticks <= LongKeyWindow /\ KeyUp(event, LongKeyEvents)
  \/ Tick(LongTicks)
  \/ CraftLoadSuccess(LongLoadDelay)
  \/ CraftLoadError(LongLoadDelay)
  \/ SunLoadSuccess(LongLoadDelay)
  \/ SunLoadError(LongLoadDelay)

SpecLong == Init /\ [][NextLong]_vars

(***************************************************************************)
(* SpecTap: the craft loads before the first tick and the keyboard         *)
(* delivers every event, the key-down of a key that is already down (auto- *)
(* repeat) and the key-up of a key that is up included.                    *)
(***************************************************************************)
TapEvents == {"w", "a", "x"}

TapTicks == 3
TapKeyEvents == 3
TapLoadDelay == 0

NextTap ==
  \/ \E event \in TapEvents : KeyDown(event, TapKeyEvents)
  \/ \E event \in TapEvents : KeyUp(event, TapKeyEvents)
  \/ Tick(TapTicks)
  \/ CraftLoadSuccess(TapLoadDelay)

SpecTap == Init /\ [][NextTap]_vars

(***************************************************************************)
(* SpecPulse: the frame loop without end.  The browser runs the pending    *)
(* frame callback again and again (weak fairness of Frame); the sun load   *)
(* succeeds within the first ticks or stays pending, and the craft load    *)
(* stays pending.  To keep the states finite the two counters that grow    *)
(* without bound are followed for PulseTicks ticks, more than one period   *)
(* of the pulse, and held there: the tick count, and the sun's rotation.y, *)
(* which nothing reads.                                                    *)
(***************************************************************************)
PulseTicks == 45
PulseLoadDelay == 1

\* state t with the sun's rotation.y held at the spin of PulseTicks ticks
Capped(t) ==
  IF t.sun = Undefined THEN t
  ELSE [t EXCEPT !.sun.rotationY = MathMin(@, sunSpin * PulseTicks)]

Frame ==
  /\ frames > 0
  /\ Finish("animate", "", Capped(animate([This EXCEPT !.frames = @ - 1])))
  /\ ticks' = MathMin(ticks + 1, PulseTicks)
  /\ hold' = heldBy(This, hold)
  /\ UNCHANGED keyEvents

NextPulse ==
  \/ Frame
  \/ SunLoadSuccess(PulseLoadDelay)

SpecPulse == Init /\ [][NextPulse]_vars /\ WF_vars(Frame)

(***************************************************************************)
(* SpecBank: the craft loads before the first tick, the sun may load, and  *)
(* the keyboard delivers the bank keys Q and E beside a strafe key.        *)
(***************************************************************************)
BankEvents == {"q", "E", "d"}

BankTicks == 3
BankKeyEvents == 2
BankLoadDelay == 0

NextBank ==
  \/ \E event \in BankEvents : KeyDown(event, BankKeyEvents)
  \/ \E event \in BankEvents : KeyUp(event, BankKeyEvents)
  \/ Tick(BankTicks)
  \/ CraftLoadSuccess(BankLoadDelay)
  \/ SunLoadSuccess(BankLoadDelay)

SpecBank == Init /\ [][NextBank]_vars

(***************************************************************************)
(* SpecTrail: generateTrail as a function of the trail it is given.  The   *)
(* initial states are the moments inside updateRibbonTrail after the       *)
(* unshift and before the call of generateTrail: the history holds 1 to    *)
(* MaxSamples samples taken from TrailPoints, and when the history before  *)
(* the unshift had 2 samples or more the mesh built from it is attached.   *)
(***************************************************************************)
TrailPoints ==
  {Vector3(0, 0, 0), Vector3(Micro, 0, 0), Vector3(2 * Micro, 0, 0)}

MaxSamples == 4

\* the histories of n samples, newest first, the oldest with id 1
Histories(n) ==
  {[i \in 1..n |-> [id |-> n + 1 - i, position |-> f[i]]] :
     f \in [1..n -> TrailPoints]}

InitTrail ==
  \E n \in 1..MaxSamples : \E history \in Histories(n) :
    /\ trailHistory = history
    /\ clones = n
    /\ spaceModel = [position |-> history[1].position,
                     rotation |-> Euler(0, MathPI, 0)]
    /\ craftLoad = "loaded"
    /\ meshes = (IF n > 2 THEN 1 ELSE 0)
    /\ trailMesh = (IF n > 2
                    THEN [id |-> 1, tubularSegments |-> (n - 1) * 2]
                    ELSE constructor.trailMesh)
    /\ scene = [objects |-> Append(constructor.scene.objects, "spaceModel"),
                trailMeshes |-> IF n > 2 THEN {1} ELSE {}]
    /\ sun = constructor.sun
    /\ camera = constructor.camera
    /\ pointLight = constructor.pointLight
    /\ keyState = constructor.keyState
    /\ hoverAngle = constructor.hoverAngle
    /\ hoverOffset = constructor.hoverOffset
    /\ sunPulseTime = constructor.sunPulseTime
    /\ sunPulseDirection = constructor.sunPulseDirection
    /\ sunLoad = constructor.sunLoad
    /\ frames = constructor.frames
    /\ faults = constructor.faults
    /\ ticks = 0
    /\ keyEvents = 0
    /\ hold = [key |-> "", n |-> 0]
    /\ last = [op |-> "unshift", key |-> "", pre |-> Undefined,
               moved |-> Undefined, steps |-> <<>>, prev |-> Undefined]

GenerateTrail ==
  /\ last.op = "unshift"
  /\ Finish("generateTrail", "", generateTrail(This))
  /\ UNCHANGED <<ticks, keyEvents, hold>>

NextTrail == GenerateTrail

SpecTrail == InitTrail /\ [][NextTrail]_vars

(***************************************************************************)
(* Properties.  `last` holds the state the last handler started from       *)
(* (last.pre) and the craft right after its moveModel step (last.moved).   *)
(***************************************************************************)
Abs(n) == IF n < 0 THEN 0 - n ELSE n
Sign(n) == IF n < 0 THEN 0 - 1 ELSE IF n > 0 THEN 1 ELSE 0

\* the last handler was a tick that found the craft loaded
CraftTick == last.op = "animate" /\ last.pre.spaceModel # Undefined

\* the last handler was a tick that found the sun loaded
SunTick == last.op = "animate" /\ last.pre.sun # Undefined

\* of the four movement controls, exactly `key` is active
Only(k, key) == k[key] /\ \A other \in {"W", "S", "A", "D"} \ {key} : ~k[other]

\* C1: trailHistory never holds more than maxTrailPoints samples, and once
\* maxTrailPoints + 1 samples have been taken the first sample is gone and the
\* newest sample is at index 0.
TrailBounded ==
  /\ Len(trailHistory) <= maxTrailPoints
  /\ clones > maxTrailPoints =>
       /\ \A i \in 1..Len(trailHistory) : trailHistory[i].id # 1
       /\ trailHistory[1].id = clones

TrailOverflowed == clones = maxTrailPoints + 1 /\ Len(trailHistory) = maxTrailPoints

\* C2 (as claimed): once the sun has loaded the pulse phase is within [0, 1].
PulseWithinUnit ==
  sun # Undefined => sunPulseTime >= 0 /\ sunPulseTime <= Micro

\* C2 (amended): once the sun has loaded the pulse phase is within
\* [-0.05, 1.05]: it passes a bound, by at most one step, before it turns.
PulseWithinOneStep ==
  sun # Undefined =>
    sunPulseTime >= 0 - pulseStep /\ sunPulseTime <= Micro + pulseStep

PulseUndershoots == sun # Undefined /\ sunPulseTime = 0 - pulseStep

LevelTick ==
  CraftTick /\ ~last.pre.keyState["A"] /\ ~last.pre.keyState["D"]

\* C4 (as claimed): a tick with neither strafe control active multiplies the
\* roll by 0.9, strictly decreases its magnitude and keeps its sign.
RollDecaysStrictly ==
  LevelTick =>
    LET z0 == last.pre.spaceModel.rotation.z
        z == spaceModel.rotation.z
    IN /\ 10 * z = 9 * z0
       /\ Abs(z) < Abs(z0)
       /\ Sign(z) = Sign(z0)

\* C4 (amended): a tick with neither strafe control active multiplies the roll
\* by 0.9: a nonzero roll strictly decreases in magnitude and keeps its sign,
\* a roll of 0 stays 0.
RollDecays ==
  LevelTick =>
    LET z0 == last.pre.spaceModel.rotation.z
        z == spaceModel.rotation.z
    IN /\ 10 * z = 9 * z0
       /\ z0 # 0 => Abs(z) < Abs(z0)
       /\ z0 = 0 => z = 0
       /\ Sign(z) = Sign(z0)

RollDecayed == LevelTick /\ last.pre.spaceModel.rotation.z < 0

\* the bank limit of the strafe control `key`
limitOf(key) == IF key = "D" THEN bankLimit ELSE 0 - bankLimit

\* the last tick belongs to a run of ticks with one strafe control held alone
HoldTick == CraftTick /\ hold.n >= 1

\* C5 (as claimed): while one strafe control is held alone the roll stays within
\* [-0.3, 0.3], moves by 0.05 per tick toward the control's limit, and is at the
\* limit after at most 6 ticks.
HoldSaturatesInSix ==
  HoldTick =>
    LET z0 == last.pre.spaceModel.rotation.z
        z == spaceModel.rotation.z
        lim == limitOf(hold.key)
    IN /\ Abs(z) <= bankLimit
       /\ IF z0 = lim THEN z = lim ELSE z = z0 + Sign(lim) * bankStep
       /\ hold.n >= 6 => z = lim

\* C5 (amended): while one strafe control is held alone the roll stays within
\* [-0.3, 0.3], moves toward the control's limit (+0.3 for D, -0.3 for A) by
\* 0.05 per tick, or by the remaining distance when that is less, and is at
\* the limit after at most 12 ticks.
HoldSaturatesInTwelve ==
  HoldTick =>
    LET z0 == last.pre.spaceModel.rotation.z
        z == spaceModel.rotation.z
        lim == limitOf(hold.key)
    IN /\ Abs(z) <= bankLimit
       /\ IF Abs(lim - z0) < bankStep THEN z = lim
          ELSE z = z0 + Sign(lim) * bankStep
       /\ hold.n >= 12 => z = lim

HoldSaturatedAtTwelve ==
  /\ HoldTick
  /\ hold.n = 12
  /\ spaceModel.rotation.z = limitOf(hold.key)
  /\ last.pre.spaceModel.rotation.z # limitOf(hold.key)

\* C6 (as claimed): a moveModel step with only W active moves the craft by
\* +forward x currentSpeed, with only S active by -forward x currentSpeed.
ForwardKeyMovesForward ==
  CraftTick =>
    LET m0 == last.pre.spaceModel
        k == last.pre.keyState
    IN /\ Only(k, "W") =>
            last.moved.position =
              addScaledVector(m0.position, modelForward(m0), currentSpeed(k))
       /\ Only(k, "S") =>
            last.moved.position =
              addScaledVector(m0.position, modelForward(m0), 0 - currentSpeed(k))

\* C7 (as claimed): a moveModel step with only A active moves the craft by
\* -right x currentSpeed, with only D active by +right x currentSpeed, and in
\* both cases the roll moves by 0.05 toward a limit of magnitude 0.3.
StrafeKeyMovesAlongRight ==
  CraftTick =>
    LET m0 == last.pre.spaceModel
        k == last.pre.keyState
        z0 == m0.rotation.z
        z == last.moved.rotation.z
    IN /\ Only(k, "A") =>
            last.moved.position =
              addScaledVector(m0.position, modelRight(m0), 0 - currentSpeed(k))
       /\ Only(k, "D") =>
            last.moved.position =
              addScaledVector(m0.position, modelRight(m0), currentSpeed(k))
       /\ (Only(k, "A") \/ Only(k, "D")) =>
            Abs(z - z0) = bankStep \/ Abs(z) = bankLimit

\* C8 (as claimed): with W and S both active the moveModel step leaves the
\* position unchanged along forward; with A and D both active it leaves the
\* position unchanged along right and the roll unchanged.
OppositeControlsCancel ==
  CraftTick =>
    LET m0 == last.pre.spaceModel
        k == last.pre.keyState
        moved == sub(last.moved.position, m0.position)
    IN /\ (k["W"] /\ k["S"]) => dot(moved, modelForward(m0)) = 0
       /\ (k["A"] /\ k["D"]) =>
            /\ dot(moved, modelRight(m0)) = 0
            /\ last.moved.rotation.z = m0.rotation.z

\* C8 (amended): as claimed for the position; with A and D both active the roll
\* is unchanged when it is at most 0.25 and becomes 0.25 when it is above, as
\* it is at the limit +0.3.
OppositeControlsCancelBelowLimit ==
  CraftTick =>
    LET m0 == last.pre.spaceModel
        k == last.pre.keyState
        moved == sub(last.moved.position, m0.position)
    IN /\ (k["W"] /\ k["S"]) => dot(moved, modelForward(m0)) = 0
       /\ (k["A"] /\ k["D"]) =>
            /\ dot(moved, modelRight(m0)) = 0
            /\ last.moved.rotation.z =
                 MathMin(m0.rotation.z, bankLimit - bankStep)

BothStrafeAtLimit ==
  /\ CraftTick
  /\ last.pre.keyState["A"] /\ last.pre.keyState["D"]
  /\ last.pre.spaceModel.rotation.z = bankLimit
  /\ spaceModel.rotation.z = bankLimit - bankStep

\* C9: keyState always has exactly the seven entries, each a boolean; a key
\* event whose upper-cased identifier is not one of them changes nothing and
\* raises no fault, and a recognised one sets its own entry only.
KeyStateTracksKnownKeys ==
  /\ DOMAIN keyState = Keys
  /\ \A key \in Keys : keyState[key] \in BOOLEAN
  /\ last.op \in {"onKeyDown", "onKeyUp"} =>
       LET key == toUpperCase(last.key)
       IN /\ faults = last.pre.faults
          /\ IF key \in Keys
             THEN keyState =
                    [last.pre.keyState EXCEPT ![key] = (last.op = "onKeyDown")]
             ELSE keyState = last.pre.keyState

UnknownKeyIgnored ==
  /\ last.op = "onKeyDown"
  /\ toUpperCase(last.key) \notin Keys
  /\ \E key \in Keys : keyState[key]

\* C10: a tick that finds spaceModel unset changes neither the camera, nor the
\* point light, nor hoverAngle, nor the trail, raises no fault and runs all its
\* steps.
TickBeforeLoadIsNoOp ==
  (last.op = "animate" /\ last.pre.spaceModel = Undefined) =>
    /\ camera = last.pre.camera
    /\ pointLight = last.pre.pointLight
    /\ hoverAngle = last.pre.hoverAngle
    /\ trailHistory = last.pre.trailHistory
    /\ trailMesh = last.pre.trailMesh
    /\ faults = last.pre.faults
    /\ last.steps = <<"moveModel", "updateCamera", "applyHoveringEffect",
                      "lightFollow", "sunPulse", "updateRibbonTrail", "render">>

TickBeforeLoadWithKeysHeld ==
  /\ last.op = "animate"
  /\ last.pre.spaceModel = Undefined
  /\ last.pre.keyState["W"] /\ last.pre.keyState["A"]

\* the chase pose of a craft pose: position plus the rotated camera offset
chasePosition(position, rotation) ==
  add(position, toMicro(applyQuaternion(cameraOffset, rotation)))

\* the look target of a craft pose: position plus the rotated look-ahead
chaseTarget(position, rotation) ==
  add(position, toMicro(applyQuaternion(cameraLookAhead, rotation)))

\* C11: once a load has ended in onError its entity stays unset and the load
\* is never requested again, every tick leaves a frame callback pending and
\* runs through to render, and a tick still advances the other entity: the
\* sun pulse when the craft failed, the trail when the sun failed.
LoadFailureIsPermanent ==
  [][/\ (last.op = "craftFailed" \/ craftLoad = "failed") =>
          craftLoad' = "failed" /\ spaceModel' = Undefined
     /\ (last.op = "sunFailed" \/ sunLoad = "failed") =>
          sunLoad' = "failed" /\ sun' = Undefined
     /\ last'.op = "animate" =>
          /\ frames' >= 1
          /\ faults' = faults
          /\ last'.steps[Len(last'.steps)] = "render"
          /\ (craftLoad = "failed" /\ sun # Undefined) =>
               sunPulseTime' = sunPulseTime + pulseStep * sunPulseDirection
          /\ (sunLoad = "failed" /\ spaceModel # Undefined) =>
               /\ clones' = clones + 1
               /\ trailHistory'[1].position = spaceModel'.position
    ]_vars

CraftFailedSunPulsing ==
  /\ craftLoad = "failed"
  /\ last.op = "animate"
  /\ last.pre.craftLoad = "failed"
  /\ last.pre.sun # Undefined
  /\ sunPulseTime = 2 * pulseStep

\* C12 (as claimed): no handler, the constructor included, has raised a fault.
NoFault == faults = {}

\* C13 (as claimed): a call of generateTrail on a history of exactly the two
\* samples (1,0,0) and (0,0,0) leaves no trail mesh attached and raises no
\* fault.
TwoSamplesNoMesh ==
  (/\ last.op = "generateTrail"
   /\ Len(trailHistory) = 2
   /\ trailHistory[1].position = Vector3(Micro, 0, 0)
   /\ trailHistory[2].position = Vector3(0, 0, 0)) =>
    /\ scene.trailMeshes = {}
    /\ faults = last.pre.faults

\* C13 (amended): a call of generateTrail on a history of exactly two samples
\* builds a tube mesh of 4 segments, attaches it as the only trail mesh and
\* raises no fault.
TwoSamplesOneMesh ==
  (last.op = "generateTrail" /\ Len(trailHistory) = 2) =>
    /\ trailMesh # Null
    /\ trailMesh.tubularSegments = 4
    /\ trailMesh.id = last.pre.meshes + 1
    /\ scene.trailMeshes = {trailMesh.id}
    /\ faults = last.pre.faults

TwoSamplesMeshed ==
  /\ last.op = "generateTrail"
  /\ Len(trailHistory) = 2
  /\ trailHistory[1].position = Vector3(Micro, 0, 0)
  /\ trailHistory[2].position = Vector3(0, 0, 0)
  /\ scene.trailMeshes = {1}

\* C14: after every handler that ran updateCamera with the craft loaded, the
\* camera position and look target are the chase pose of the craft pose
\* updateCamera saw, whatever the camera, keys, trail or pulse were before.
CameraIsChasePose ==
  /\ CraftTick =>
       /\ camera.position =
            chasePosition(last.moved.position, last.moved.rotation)
       /\ camera.target = chaseTarget(last.moved.position, last.moved.rotation)
  /\ last.op = "craftLoaded" =>
       /\ camera.position =
            chasePosition(spaceModel.position, spaceModel.rotation)
       /\ camera.target = chaseTarget(spaceModel.position, spaceModel.rotation)

CameraFollowedBankedCraft ==
  /\ CraftTick
  /\ last.pre.keyState["W"] /\ last.pre.keyState["D"]
  /\ last.moved.rotation.z = 2 * bankStep
  /\ camera.position # last.pre.camera.position
  /\ Len(trailHistory) >= 2

\* the program state, without the control state of a running handler
Program(t) == [t EXCEPT !.thrown = FALSE, !.steps = <<>>, !.moved = Undefined]

\* the last two handlers were the key-down and the key-up of one key
Tapped == last.op = "onKeyUp" /\ last.prev # Undefined

\* C15 (as claimed): after the key-down and the matching key-up of one key
\* with no tick between them, the program state is the state before the
\* key-down.
TapLeavesNoTrace == Tapped => This = Program(last.prev)

\* the key of the last key event was down in state t
Held(t) == toUpperCase(last.key) \in Keys /\ t.keyState[toUpperCase(last.key)]

\* C15 (amended): after the key-down and the matching key-up of one key with
\* no tick between them, the program state is the state before the key-down
\* when the key was up before the key-down; when it was down (the key-down
\* was an auto-repeat), only its keyState entry differs: it is now false.
FreshTapLeavesNoTrace ==
  Tapped =>
    IF Held(last.prev)
    THEN This = Program([last.prev EXCEPT
                           !.keyState[toUpperCase(last.key)] = FALSE])
    ELSE This = Program(last.prev)

FreshTapBetweenTicks ==
  /\ Tapped
  /\ last.key = "w"
  /\ ~Held(last.prev)
  /\ last.prev.keyState["A"]
  /\ ticks >= 1
  /\ spaceModel # Undefined

\* C16: every tick runs its seven steps in the order moveModel, updateCamera,
\* applyHoveringEffect, light follow, sun pulse, updateRibbonTrail, render,
\* and no other handler runs any of them but the craft load's updateCamera.
StepsInOrder ==
  /\ last.op = "animate" =>
       last.steps = <<"moveModel", "updateCamera", "applyHoveringEffect",
                      "lightFollow", "sunPulse", "updateRibbonTrail", "render">>
  /\ last.op = "craftLoaded" => last.steps = <<"updateCamera">>
  /\ last.op \notin {"animate", "craftLoaded"} => last.steps = <<>>

FullTickRan ==
  /\ CraftTick
  /\ SunTick
  /\ Len(last.steps) = 7
  /\ Len(trailHistory) >= 1
  /\ sunPulseTime = pulseStep

\* C17 (as claimed): at the end of every tick with the craft loaded, when the
\* frame is rendered, the camera is at the chase pose of the craft's current
\* pose.
CameraAtRenderedCraft ==
  CraftTick =>
    camera.position = chasePosition(spaceModel.position, spaceModel.rotation)

\* C17 (amended): at the end of every tick with the craft loaded the camera is
\* at the chase pose of the pose the craft had before the hover offset of
\* that tick was added: it is behind the rendered craft's chase pose by
\* exactly that hover offset, which is never the zero vector.
CameraBehindByHover ==
  CraftTick =>
    /\ camera.position =
         chasePosition(sub(spaceModel.position, hoverOffset),
                       spaceModel.rotation)
    /\ hoverOffset =
         Vector3((MathSin(last.pre.hoverAngle) * hoverAmpXY) \div Milli,
                 (MathCos(last.pre.hoverAngle) * hoverAmpXY) \div Milli,
                 (MathCos(last.pre.hoverAngle) * hoverAmpZ) \div Milli)
    /\ hoverOffset # Vector3(0, 0, 0)

HoverSeparatedCamera ==
  /\ CraftTick
  /\ last.pre.hoverAngle = 0
  /\ hoverOffset = Vector3(0, hoverAmpXY, hoverAmpZ)
  /\ camera.position #
       chasePosition(spaceModel.position, spaceModel.rotation)

\* C18: at most one trail mesh is attached to the scene, and an attached one
\* is this.trailMesh, the mesh built last.
OneTrailMesh ==
  /\ Cardinality(scene.trailMeshes) <= 1
  /\ scene.trailMeshes # {} =>
       trailMesh # Null /\ scene.trailMeshes = {trailMesh.id}
  /\ trailMesh # Null => trailMesh.id = meshes

TrailMeshReplaced ==
  /\ meshes = 3
  /\ scene.trailMeshes = {3}
  /\ last.op = "animate"
  /\ last.pre.scene.trailMeshes = {2}

\* C19: a trail mesh exists only when trailHistory holds 2 points or more;
\* after the first sample there is none; its segment count is twice the
\* length of trailHistory and so at most twice maxTrailPoints.
MeshNeedsTwoPoints ==
  /\ Len(trailHistory) < 2 => trailMesh = Null /\ scene.trailMeshes = {}
  /\ Len(trailHistory) >= 2 =>
       /\ trailMesh # Null
       /\ trailMesh.tubularSegments = 2 * Len(trailHistory)
       /\ trailMesh.tubularSegments <= 2 * maxTrailPoints

LongestTube ==
  /\ Len(trailHistory) = maxTrailPoints
  /\ clones > maxTrailPoints
  /\ trailMesh # Null
  /\ trailMesh.tubularSegments = 2 * maxTrailPoints

\* the craft's displacement in the moveModel step of the last tick
Displacement == sub(last.moved.position, last.pre.spaceModel.position)

\* C20: in a moveModel step with one movement control active the displacement
\* is the control's unit direction scaled by plus or minus the speed, which
\* is 0.4 with SHIFT down and 0.2 otherwise; SHIFT changes nothing else: the
\* rotation after the step is what it is with SHIFT up.
BoostDoublesSpeedOnly ==
  CraftTick =>
    LET m0 == last.pre.spaceModel
        k == last.pre.keyState
        speed == IF k["SHIFT"] THEN 4 * (Micro \div 10) ELSE 2 * (Micro \div 10)
        unboosted == [last.pre EXCEPT !.keyState["SHIFT"] = FALSE]
    IN /\ dot(modelForward(m0), modelForward(m0)) = Milli
       /\ dot(modelRight(m0), modelRight(m0)) = Milli
       /\ (Only(k, "W") \/ Only(k, "S")) =>
            Displacement \in {scaled(modelForward(m0), speed),
                              scaled(modelForward(m0), 0 - speed)}
       /\ (Only(k, "A") \/ Only(k, "D")) =>
            Displacement \in {scaled(modelRight(m0), speed),
                              scaled(modelRight(m0), 0 - speed)}
       /\ last.moved.rotation = moveModel(unboosted).spaceModel.rotation

BoostedStrafe ==
  /\ CraftTick
  /\ last.pre.keyState["SHIFT"]
  /\ Only(last.pre.keyState, "D")
  /\ Abs(Displacement.x) = 4 * (Micro \div 10)
  /\ last.moved.rotation.z = bankStep

\* object `name` is a child of scene s
attached(s, name) == \E i \in 1..Len(s.objects) : s.objects[i] = name

\* the pose loadSpaceModel gives the craft: position (0, 0, -3), yaw pi
loadedPose ==
  [position |-> Vector3(0, 0, 0 - 3 * Micro), rotation |-> Euler(0, MathPI, 0)]

\* C21: whenever spaceModel is set, between handlers, the craft is in the
\* scene and the camera has been placed; right after the craft load the craft
\* has its initial pose and the camera its chase pose; whenever sun is set
\* the pulse phase and direction are numbers, 0 and +1 right after the sun
\* load; so every tick starts from such a state.
TickSeesConsistentContext ==
  /\ spaceModel # Undefined =>
       /\ craftLoad = "loaded"
       /\ attached(scene, "spaceModel")
       /\ camera.target # Undefined
  /\ last.op = "craftLoaded" =>
       /\ spaceModel = loadedPose
       /\ camera.position = chasePosition(loadedPose.position, loadedPose.rotation)
       /\ camera.target = chaseTarget(loadedPose.position, loadedPose.rotation)
  /\ sun # Undefined =>
       /\ sunLoad = "loaded"
       /\ attached(scene, "sun")
       /\ sunPulseTime \in Int
       /\ sunPulseDirection \in {0 - 1, 1}
  /\ last.op = "sunLoaded" => sunPulseTime = 0 /\ sunPulseDirection = 1
  /\ (last.op = "animate" /\ last.pre.spaceModel # Undefined) =>
       /\ attached(last.pre.scene, "spaceModel")
       /\ last.pre.camera.target # Undefined
  /\ (last.op = "animate" /\ last.pre.sun # Undefined) =>
       /\ last.pre.sunPulseTime \in Int
       /\ last.pre.sunPulseDirection \in {0 - 1, 1}

FirstTickAfterBothLoads ==
  /\ CraftTick
  /\ SunTick
  /\ last.pre.spaceModel = loadedPose
  /\ last.pre.camera.position =
       chasePosition(loadedPose.position, loadedPose.rotation)
  /\ last.pre.sunPulseTime = 0
  /\ last.pre.sunPulseDirection = 1

\* C22: a tick with the craft loaded adds the hover offset of the angle it
\* started with to the position moveModel produced, advances hoverAngle by
\* 0.05, and leaves the orientation moveModel produced and keyState as they
\* were; hoverAngle is 0.05 times the number of ticks since the load (each
\* has taken one trail sample).
HoverIsAdditive ==
  /\ hoverAngle = hoverStep * clones
  /\ CraftTick =>
       /\ hoverOffset =
            Vector3((MathSin(last.pre.hoverAngle) * hoverAmpXY) \div Milli,
                    (MathCos(last.pre.hoverAngle) * hoverAmpXY) \div Milli,
                    (MathCos(last.pre.hoverAngle) * hoverAmpZ) \div Milli)
       /\ spaceModel.position = add(last.moved.position, hoverOffset)
       /\ hoverAngle = last.pre.hoverAngle + hoverStep
       /\ spaceModel.rotation = last.moved.rotation
       /\ keyState = last.pre.keyState

HoveredAfterMotion ==
  /\ CraftTick
  /\ Only(last.pre.keyState, "S")
  /\ hoverAngle = 3 * hoverStep
  /\ hoverOffset.x > 0
  /\ last.moved.position # last.pre.spaceModel.position

\* C23: once the sun has loaded the pulse phase is within [-0.05, 1.05] and
\* the direction is +1 or -1 in every state, and the direction becomes -1
\* again and again and +1 again and again: it flips infinitely often.
PulseKeepsTurning ==
  /\ [](sun # Undefined =>
          /\ sunPulseTime >= 0 - pulseStep
          /\ sunPulseTime <= Micro + pulseStep
          /\ sunPulseDirection \in {0 - 1, 1})
  /\ []<>(sun # Undefined => sunPulseDirection = 0 - 1)
  /\ []<>(sun # Undefined => sunPulseDirection = 1)

PulseTurnedDown ==
  /\ SunTick
  /\ sunPulseTime = Micro + pulseStep
  /\ last.pre.sunPulseDirection = 1
  /\ sunPulseDirection = 0 - 1
  /\ ticks = PulseTicks

\* C24: with the craft loaded the roll angle is within [-0.3, 0.3] in every
\* state, whatever keys are down and however they change between ticks.
RollWithinLimits ==
  spaceModel # Undefined =>
    /\ spaceModel.rotation.z >= 0 - bankLimit
    /\ spaceModel.rotation.z <= bankLimit

RollAtLeftLimit ==
  /\ CraftTick
  /\ last.pre.keyState["A"]
  /\ last.pre.spaceModel.rotation.z = bankStep - bankLimit
  /\ spaceModel.rotation.z = 0 - bankLimit

TrailIsPositionHistory ==
  /\ \A i \in 1..Len(trailHistory) : trailHistory[i].id = clones + 1 - i
  /\ CraftTick =>
       /\ clones = last.pre.clones + 1
       /\ trailHistory[1].position = spaceModel.position
       /\ Len(trailHistory) =
            MathMin(Len(last.pre.trailHistory) + 1, maxTrailPoints)
       /\ \A i \in 2..Len(trailHistory) :
            trailHistory[i] = last.pre.trailHistory[i - 1]

TrailShiftedWhenFull ==
  /\ CraftTick
  /\ Len(last.pre.trailHistory) = maxTrailPoints
  /\ clones = maxTrailPoints + 2
  /\ trailHistory[2].position = last.pre.spaceModel.position

\* C29: with the craft loaded the pitch rotation.x is 0 and the yaw
\* rotation.y is the value set on load, pi, in every state; the pitch decay
\* of a tick with neither W nor S down leaves the pitch at 0.
PitchAndYawFixed ==
  /\ spaceModel # Undefined =>
       /\ spaceModel.rotation.x = 0
       /\ spaceModel.rotation.y = MathPI
  /\ CraftTick =>
       /\ last.moved.rotation.x = last.pre.spaceModel.rotation.x
       /\ last.moved.rotation.y = last.pre.spaceModel.rotation.y

OnlyRollAndPositionVaried ==
  /\ CraftTick
  /\ last.pre.keyState["W"] /\ last.pre.keyState["A"]
  /\ spaceModel.rotation.z = 0 - 2 * bankStep
  /\ spaceModel.position # last.pre.spaceModel.position

\* state t with the bank keys Q and E up
Unbanked(t) == [t EXCEPT !.keyState["Q"] = FALSE, !.keyState["E"] = FALSE]

\* C27: a key event of Q or E changes nothing but its keyState entry, and a
\* tick leaves everything but those two entries exactly as the same tick
\* does from the same state with Q and E up; so runs that differ only in Q
\* and E events agree on everything else after every tick.
BankKeysHaveNoEffect ==
  /\ (last.op \in {"onKeyDown", "onKeyUp"} /\ toUpperCase(last.key) \in {"Q", "E"})
       => Unbanked(This) = Unbanked(last.pre)
  /\ last.op = "animate" =>
       Unbanked(This) =
         Unbanked(Program(animate([Unbanked(last.pre) EXCEPT !.frames = @ - 1])))

TickWithBankKeyDown ==
  /\ CraftTick
  /\ last.pre.keyState["Q"]
  /\ last.pre.keyState["D"]
  /\ keyState["Q"]
  /\ spaceModel.rotation.z = bankStep

\* both loads are still pending
BothPending == craftLoad = "pending" /\ sunLoad = "pending"

\* the state after the craft load and then the sun load, and after the sun
\* load and then the craft load, with no tick between
CraftThenSun == Program(sunLoaded(craftLoaded(This)))
SunThenCraft == Program(craftLoaded(sunLoaded(This)))

\* a load callback leaves the other entity's state as it was
LoadsAreSeparate ==
  /\ last.op = "craftLoaded" =>
       /\ sun = last.pre.sun
       /\ sunPulseTime = last.pre.sunPulseTime
       /\ sunPulseDirection = last.pre.sunPulseDirection
  /\ last.op = "sunLoaded" =>
       /\ spaceModel = last.pre.spaceModel
       /\ camera = last.pre.camera
       /\ trailHistory = last.pre.trailHistory
       /\ trailMesh = last.pre.trailMesh

\* C28 (as claimed): from a state with both loads pending the two orders of
\* completion give the same state, and a load callback leaves the other
\* entity's state as it was.
LoadsCommute ==
  /\ BothPending => CraftThenSun = SunThenCraft
  /\ LoadsAreSeparate

\* C28 (amended): from a state with both loads pending the two orders of
\* completion give the same state but for the order of the scene's children,
\* where the entity that loaded first comes first; a load callback leaves the
\* other entity's state as it was.
LoadsCommuteButForChildOrder ==
  /\ BothPending =>
       /\ [CraftThenSun EXCEPT !.scene.objects = <<>>] =
            [SunThenCraft EXCEPT !.scene.objects = <<>>]
       /\ CraftThenSun.scene.objects =
            scene.objects \o <<"spaceModel", "sun", "sunLight">>
       /\ SunThenCraft.scene.objects =
            scene.objects \o <<"sun", "sunLight", "spaceModel">>
  /\ LoadsAreSeparate

SunLoadedRightAfterCraft ==
  /\ last.op = "sunLoaded"
  /\ ticks = 1
  /\ spaceModel = loadedPose
  /\ scene.objects[Len(scene.objects)] = "sunLight"
  /\ scene.objects[Len(scene.objects) - 2] = "spaceModel"
  /\ \E key \in Keys : keyState[key]

====
